---- MODULE Spec2Model ----
(***************************************************************************)
(* A model of slahmr/run_rerun_vis.py: the batch launcher (main,           *)
(* launch_rerun_vis), the per-run orchestrator (log_to_rrd, log_to_rerun)  *)
(* and the loggers (log_input_frames, log_skeleton_2d, log_camera,         *)
(* log_phase_result), with the recording sink modelled as the sequence of  *)
(* events each run logs and the sequence of timeline keys it sets, and the *)
(* file system as the set of log.rrd files rr.save has written.            *)
(*                                                                         *)
(* Python indices are kept 0-based for tracks, frames and joints (they     *)
(* are functions over 0..n-1); lists the code walks in order (args.gpus,   *)
(* args.phases, args.log_dirs, the event log) are TLA+ sequences, so run   *)
(* r of the model is args.log_dirs[r-1].                                   *)
(***************************************************************************)
EXTENDS Integers, Sequences, FiniteSets, TLC

(***************************************************************************)
(* Bounds of the model.                                                    *)
(***************************************************************************)
MaxRuns == 9
MaxSaveRuns == 2
MaxGpus == 3
MaxLoad == 18
MaxCells == 6
SkelMaxCells == 3
MaxPhases == 3
MaxKeys == 3

(***************************************************************************)
(* Program constants.  Confidences are fixed-point numbers in units of     *)
(* 0.00001, so that 0.3 is Threshold, 0.30001 is Threshold + 1 and 1.0 is  *)
(* 100000.  CamIndex is the leading index of phase_result["cam_t"][1, f].  *)
(***************************************************************************)
Threshold == 30000
CamIndex == 1

Min(a, b) == IF a <= b THEN a ELSE b

Range(s) == {s[k] : k \in DOMAIN s}

\* skeleton_ids: the anatomical edges, pairs of indices into the remapped joints
SkeletonIds ==
    << <<15, 13>>, <<13, 11>>, <<16, 14>>, <<14, 12>>, <<11, 12>>,
       <<5, 11>>, <<6, 12>>, <<5, 6>>, <<5, 7>>, <<6, 8>>, <<7, 9>>,
       <<8, 10>>, <<1, 2>>, <<0, 1>>, <<0, 2>>, <<1, 3>>, <<2, 4>>,
       <<3, 5>>, <<4, 6>> >>

\* idcs: remapped joint k is raw joint Idcs[k+1]
Idcs == <<0, 16, 15, 18, 17, 5, 2, 6, 3, 7, 4, 12, 9, 13, 10, 14, 11>>

\* the raw joints of a frame (the 25-point layout idcs selects 17 joints from)
RawJoints == 0..24

\* frame_joints[idcs][..., 2]: the confidences of the remapped joints
Remap(frameJoints) == [k \in 0..(Len(Idcs) - 1) |-> frameJoints[Idcs[k + 1]]]

\* joints[..., 2].min(axis=-1) for skeleton edge e (1-based position in skeleton_ids)
JointConfidence(frameJoints, e) ==
    Min(Remap(frameJoints)[SkeletonIds[e][1]], Remap(frameJoints)[SkeletonIds[e][2]])

\* the filter with >= in place of >
PassesThresholdAtOrAbove(c) == c >= Threshold

\* joint_confidence > 0.3
PassesThreshold(c) == c > Threshold

\* good_joints_xy: the edges kept by the mask, in skeleton_ids order
GoodJoints(frameJoints) ==
    SelectSeq([e \in 1..Len(SkeletonIds) |-> e],
              LAMBDA e : PassesThreshold(JointConfidence(frameJoints, e)))

(***************************************************************************)
(* Entity paths are records: base is the literal part of the f-string,     *)
(* phase and idx the interpolated parts ("" and -1 when there is none).    *)
(***************************************************************************)
Path(base, phase, idx) == [base |-> base, phase |-> phase, idx |-> idx]

WorldPath == Path("world", "", -1)
ImagePath == Path("world/camera/image", "", -1)
CameraPath == Path("world/camera", "", -1)
SkeletonPath(i) == Path("world/camera/image/skeleton/#", "", i)
PhasePath(phase, i) == Path("world/phase_/#", phase, i)

\* one call of an rr.log_* function under the current timeline key
Event(path, kind, time, verts, faces, segs) ==
    [path |-> path, kind |-> kind, time |-> time,
     verts |-> verts, faces |-> faces, segs |-> segs]

NoVerts == [it |-> <<>>, track |-> -1, frame |-> -1]
NoSegs == <<>>
NoFaces == ""

RECURSIVE Flatten(_)
\* the concatenation of a sequence of sequences (the order of a nested loop)
Flatten(ss) == IF ss = <<>> THEN <<>> ELSE Head(ss) \o Flatten(Tail(ss))

\* enumerate(range(n)) as the sequence 0, 1, ..., n-1
Indices(n) == [k \in 1..n |-> k - 1]

(***************************************************************************)
(* A dataset (one per run directory) is a record                           *)
(*   B      len(dataset) = len(dataset.track_ids)                          *)
(*   T      dataset.seq_len = len(dataset.sel_img_paths)                   *)
(*   vis    dataset.data_dict["vis_mask"][i][f]                            *)
(*   joints dataset.data_dict["joints2d"][i][f][j][2], the confidences     *)
(*   dirs   what log_dir/<phase> holds, per phase name                     *)
(* Each logger below returns [events, keys, raised]: the rr.log_* calls it *)
(* makes in order, the rr.set_time_sequence arguments in order, and        *)
(* whether it ended by raising.                                            *)
(***************************************************************************)
Logged(events, keys, raised) == [events |-> events, keys |-> keys, raised |-> raised]

\* log_input_frames
LogInputFrames(ds) ==
    Logged([k \in 1..ds.T |-> Event(ImagePath, "image", k - 1, NoVerts, NoFaces, NoSegs)],
           Indices(ds.T), FALSE)

\* the inner loop body without its else branch
SkeletonEventNoClear(ds, i, f) ==
    LET good == GoodJoints(ds.joints[i][f])
    IN  IF Len(good) > 0
        THEN <<Event(SkeletonPath(i), "line_segments", f, NoVerts, NoFaces, good)>>
        ELSE <<>>

\* the body of log_skeleton_2d's inner loop after set_time_sequence
SkeletonEvent(ds, i, f) ==
    LET good == GoodJoints(ds.joints[i][f])
    IN  IF Len(good) > 0
        THEN <<Event(SkeletonPath(i), "line_segments", f, NoVerts, NoFaces, good)>>
        ELSE <<Event(SkeletonPath(i), "cleared", f, NoVerts, NoFaces, NoSegs)>>

\* log_skeleton_2d: tracks in the outer loop, frames in the inner one
LogSkeleton2d(ds) ==
    Logged(Flatten([a \in 1..ds.B |->
               Flatten([k \in 1..ds.T |-> SkeletonEvent(ds, a - 1, k - 1)])]),
           Flatten([a \in 1..ds.B |-> Indices(ds.T)]),
           FALSE)

\* log_camera: the defining camera, a pinhole and a rigid transform per frame
LogCamera(ds) ==
    Logged(Flatten([k \in 1..ds.T |->
               <<Event(ImagePath, "pinhole", k - 1, NoVerts, NoFaces, NoSegs),
                 Event(CameraPath, "rigid3", k - 1, NoVerts, NoFaces, NoSegs)>>]),
           Indices(ds.T), FALSE)

(***************************************************************************)
(* Phase resolution (the loop body of log_to_rerun).  An iteration key is  *)
(* a string of decimal digits, modelled as the sequence of its digits;     *)
(* Python compares strings lexicographically.                              *)
(***************************************************************************)
RECURSIVE LexLess(_, _)
\* a < b for Python strings of digits
LexLess(a, b) ==
    IF a = <<>> THEN b # <<>>
    ELSE IF b = <<>> THEN FALSE
    ELSE IF Head(a) # Head(b) THEN Head(a) < Head(b)
    ELSE LexLess(Tail(a), Tail(b))

\* sorted(res_path_dict.keys())[0]
SortedFirst(keys) == CHOOSE k \in keys : \A o \in keys : o = k \/ LexLess(k, o)

\* sorted(res_path_dict.keys())[-1]
SortedLast(keys) == CHOOSE k \in keys : \A o \in keys : o = k \/ LexLess(o, k)

\* f"{0:06d}"
InputIt == <<0, 0, 0, 0, 0, 0>>

\* a phase directory: whether it exists, the iteration keys get_results_paths
\* finds in it, and whether load_result can read the selected snapshot
Dir(exists, keys, readable) == [exists |-> exists, keys |-> keys, readable |-> readable]

\* the leading dimension of a result's cam_R / cam_t: one camera stream per track
CamBatch(ds) == ds.B

PhaseResult(ds, phase, it) == [phase |-> phase, it |-> it, camB |-> CamBatch(ds)]

\* the resolution with a missing directory treated like a failed load
ResolvePhaseMissingFatal(ds, phase) ==
    IF phase = "input"
    THEN [status |-> "found", res |-> PhaseResult(ds, phase, InputIt)]
    ELSE IF ~ds.dirs[phase].exists \/ ds.dirs[phase].keys = {} \/ ~ds.dirs[phase].readable
    THEN [status |-> "raise", res |-> PhaseResult(ds, phase, <<>>)]
    ELSE [status |-> "found",
          res |-> PhaseResult(ds, phase, SortedLast(ds.dirs[phase].keys))]

\* lines 54-65: "found" with the result, "skip" (continue) or "raise"
ResolvePhase(ds, phase) ==
    IF phase = "input"
    THEN [status |-> "found", res |-> PhaseResult(ds, phase, InputIt)]
    ELSE IF ds.dirs[phase].exists
    THEN IF ds.dirs[phase].keys = {} \/ ~ds.dirs[phase].readable
         THEN [status |-> "raise", res |-> PhaseResult(ds, phase, <<>>)]
         ELSE [status |-> "found",
               res |-> PhaseResult(ds, phase, SortedLast(ds.dirs[phase].keys))]
    ELSE [status |-> "skip", res |-> PhaseResult(ds, phase, <<>>)]

\* run_smpl, once per phase: a vertex slice per (track, frame), one face array
RunSmpl(ds, res) ==
    [vertices |-> [i \in 0..(ds.B - 1) |-> [f \in 0..(ds.T - 1) |->
                      [it |-> res.it, track |-> i, frame |-> f]]],
     faces |-> "smpl_faces"]

\* the gate with its bound lowered to the smallest code
DecideAlways(code) == code >= -1

\* the visibility gate: vis_mask[i][frame_id] >= 0
Decide(code) == code >= 0

\* lines 130-142: the mesh of track i at frame f, or its explicit clear
MeshEvent(ds, phase, smpl, i, f) ==
    IF Decide(ds.vis[i][f])
    THEN <<Event(PhasePath(phase, i), "mesh", f, smpl.vertices[i][f], smpl.faces, NoSegs)>>
    ELSE <<Event(PhasePath(phase, i), "cleared", f, NoVerts, NoFaces, NoSegs)>>

\* the frame with the camera pose logged after the track loop
PhaseFrameMeshFirst(ds, phase, smpl, f) ==
    Flatten([a \in 1..ds.B |-> MeshEvent(ds, phase, smpl, a - 1, f)])
    \o <<Event(CameraPath, "rigid3", f, NoVerts, NoFaces, NoSegs)>>

\* lines 120-142: the phase's camera pose, then every track's mesh event
PhaseFrame(ds, phase, smpl, f) ==
    <<Event(CameraPath, "rigid3", f, NoVerts, NoFaces, NoSegs)>>
    \o Flatten([a \in 1..ds.B |-> MeshEvent(ds, phase, smpl, a - 1, f)])

\* log_phase_result: cam_t[1, frame_id] raises IndexError when the result has
\* no camera stream of index 1, at the first frame and after its set_time_sequence
LogPhaseResult(ds, res) ==
    IF ds.T = 0 THEN Logged(<<>>, <<>>, FALSE)
    ELSE IF CamIndex >= res.camB THEN Logged(<<>>, <<0>>, TRUE)
    ELSE Logged(Flatten([k \in 1..ds.T |->
                    PhaseFrame(ds, res.phase, RunSmpl(ds, res), k - 1)]),
                Indices(ds.T), FALSE)

(***************************************************************************)
(* Path strings (log_root, save_root, the log_dirs, save_dir) are          *)
(* sequences of one-character strings, so that split, strip, join and      *)
(* os.path.join do to them what Python does.                               *)
(***************************************************************************)
RECURSIVE Find(_, _, _)
\* s.find(sep) from position k on (1-based), 0 when sep does not occur
Find(s, sep, k) ==
    IF k + Len(sep) - 1 > Len(s) THEN 0
    ELSE IF SubSeq(s, k, k + Len(sep) - 1) = sep THEN k
    ELSE Find(s, sep, k + 1)

RECURSIVE SplitLast(_, _)
\* s.split(sep)[-1]: what follows the last of the occurrences of sep, found
\* from the left without overlap (sep is not empty)
SplitLast(s, sep) ==
    IF Find(s, sep, 1) = 0 THEN s
    ELSE SplitLast(SubSeq(s, Find(s, sep, 1) + Len(sep), Len(s)), sep)

RECURSIVE LStrip(_, _)
LStrip(s, c) == IF Len(s) > 0 /\ Head(s) = c THEN LStrip(Tail(s), c) ELSE s
RECURSIVE RStrip(_, _)
RStrip(s, c) ==
    IF Len(s) > 0 /\ s[Len(s)] = c THEN RStrip(SubSeq(s, 1, Len(s) - 1), c) ELSE s
\* s.strip(c)
Strip(s, c) == RStrip(LStrip(s, c), c)

RECURSIVE Split(_, _)
\* s.split(c) for a one-character c: "".split("/") is [""]
Split(s, c) ==
    IF Find(s, <<c>>, 1) = 0 THEN <<s>>
    ELSE <<SubSeq(s, 1, Find(s, <<c>>, 1) - 1)>>
         \o Split(SubSeq(s, Find(s, <<c>>, 1) + 1, Len(s)), c)

RECURSIVE Join(_, _)
\* c.join(parts)
Join(parts, c) ==
    IF Len(parts) = 0 THEN <<>>
    ELSE IF Len(parts) = 1 THEN parts[1]
    ELSE parts[1] \o <<c>> \o Join(Tail(parts), c)

\* parts[:2]
FirstTwo(parts) == SubSeq(parts, 1, Min(2, Len(parts)))

\* os.path.join(a, b) for a relative b
OsPathJoin(a, b) ==
    IF Len(a) = 0 THEN b
    ELSE IF a[Len(a)] = "/" THEN a \o b
    ELSE a \o <<"/">> \o b

LogRrd == <<"l", "o", "g", ".", "r", "r", "d">>

\* lines 220-221: path_name and exp_name
PathName(logDir, root) == Strip(SplitLast(logDir, root), "/")
ExpName(logDir, root) == Join(FirstTwo(Split(PathName(logDir, root), "/")), "-")

\* args.save_root: None, or the string given with --save_root
SaveRootArg(given, path) == [given |-> given, path |-> path]

\* lines 223-228: save_dir
SaveDir(sr, logDir, root) ==
    IF sr.given THEN sr.path \o <<"/">> \o ExpName(logDir, root) ELSE logDir

(***************************************************************************)
(* State.                                                                  *)
(***************************************************************************)
VARIABLES
    gpus,       \* args.gpus, the device ids
    phases,     \* args.phases, the requested phase names
    runs,       \* per run: the dataset and phase directories found in its log_dir
    logRoot,    \* args.log_root
    saveRoot,   \* args.save_root
    logDirs,    \* args.log_dirs, in the order os.walk yields them
    mainPc,     \* main: "start", "seq", "pool", "returned", "raised"
    pc,         \* per run: where launch_rerun_vis / log_to_rrd / log_to_rerun stands
    phaseIdx,   \* per run: iterations of the phase loop completed
    log,        \* per run: the events logged to the run's recording, in order
    timeKeys,   \* per run: the rr.set_time_sequence arguments, in order
    calls,      \* per run: the results passed to log_phase_result, in order
    dev,        \* per run: dev_id, -1 before it is computed
    proc,       \* per run: the process that executes it (0 is main, w a pool worker)
    env,        \* per process: os.environ (EGL_DEVICE_ID is -1 while unset)
    saveDir,    \* per run: save_dir, the empty string before it is computed
    made,       \* the directories os.makedirs was called for
    files,      \* the files rr.save has written: path and the events held
    saved,      \* per run: the paths it has passed to rr.save, in order
    cur,        \* per pool worker: the run it took last, 0 before its first
    nextChunk,  \* the pool's task queue: chunks handed out so far
    poolFailed, \* whether a pool task has ended by raising
    invoked     \* per run: the calls of launch_rerun_vis(i, args) made so far

vars == <<gpus, phases, runs, logRoot, saveRoot, logDirs, mainPc, pc, phaseIdx,
          log, timeKeys, calls, dev, proc, env, saveDir, made, files, saved, cur,
          nextChunk, poolFailed, invoked>>

inputs == <<gpus, phases, runs, logRoot, saveRoot, logDirs>>

NumRuns == Len(runs)
Runs == 1..NumRuns
\* Pool(processes=len(args.gpus)): the worker processes of the pool
Workers == 1..Len(gpus)

Finished(r) == pc[r] \in {"done", "skipped"}
Ended(r) == pc[r] \in {"done", "skipped", "raised"}

\* os.environ before the launcher has touched it
NoEnv == [EGL_DEVICE_ID |-> -1, PYOPENGL_PLATFORM |-> "unset"]

\* the state main starts in, for the given command line and directory tree
StartIn(g, ph, rs, root, sr, ld) ==
    /\ gpus = g
    /\ phases = ph
    /\ runs = rs
    /\ logRoot = root
    /\ saveRoot = sr
    /\ logDirs = ld
    /\ mainPc = "start"
    /\ pc = [r \in 1..Len(rs) |-> "pending"]
    /\ phaseIdx = [r \in 1..Len(rs) |-> 0]
    /\ log = [r \in 1..Len(rs) |-> <<>>]
    /\ timeKeys = [r \in 1..Len(rs) |-> <<>>]
    /\ calls = [r \in 1..Len(rs) |-> <<>>]
    /\ dev = [r \in 1..Len(rs) |-> -1]
    /\ proc = [r \in 1..Len(rs) |-> -1]
    /\ env = [p \in 0..Len(g) |-> NoEnv]
    /\ saveDir = [r \in 1..Len(rs) |-> <<>>]
    /\ made = {}
    /\ files = {}
    /\ saved = [r \in 1..Len(rs) |-> <<>>]
    /\ cur = [w \in 1..Len(g) |-> 0]
    /\ nextChunk = 0
    /\ poolFailed = FALSE
    /\ invoked = [r \in 1..Len(rs) |-> 0]

(***************************************************************************)
(* The batch launcher.                                                     *)
(***************************************************************************)
\* main, lines 249-260: the runs are discovered; more than one device means a pool
Main ==
    /\ mainPc = "start"
    /\ mainPc' = IF Len(gpus) > 1 THEN "pool" ELSE "seq"
    /\ UNCHANGED <<inputs, pc, phaseIdx, log, timeKeys, calls, dev, proc, env, saveDir, made, files, saved,
                   cur, nextChunk, poolFailed, invoked>>

\* the round robin taken over i + 1
DevIdOffByOne(r) == gpus[(r % Len(gpus)) + 1]

\* args.gpus[i % len(args.gpus)] for run r = i + 1
DevId(r) == gpus[((r - 1) % Len(gpus)) + 1]

\* what an exception leaving run r does: in the main process it leaves main too,
\* in a pool worker it is caught and becomes the task's result
MainPcOnRaise(r, raised) == IF raised /\ proc[r] = 0 THEN "raised" ELSE mainPc
PoolFailedOnRaise(r, raised) == poolFailed \/ (raised /\ proc[r] # 0)

\* launch_rerun_vis, lines 216-228, in process p: the device, the environment,
\* save_dir and os.makedirs(save_dir, exist_ok=True)
LaunchRerunVis(r, p) ==
    /\ pc[r] = "pending"
    /\ invoked' = [invoked EXCEPT ![r] = @ + 1]
    /\ proc' = [proc EXCEPT ![r] = p]
    /\ IF Len(gpus) = 0
       THEN /\ pc' = [pc EXCEPT ![r] = "raised"]
            /\ mainPc' = "raised"
            /\ UNCHANGED <<dev, env, saveDir, made>>
       ELSE /\ pc' = [pc EXCEPT ![r] = "launched"]
            /\ dev' = [dev EXCEPT ![r] = DevId(r)]
            /\ env' = [env EXCEPT ![p] = [EGL_DEVICE_ID |-> DevId(r),
                                          PYOPENGL_PLATFORM |-> "egl"]]
            /\ saveDir' = [saveDir EXCEPT ![r] = SaveDir(saveRoot, logDirs[r], logRoot)]
            /\ made' = made \cup {SaveDir(saveRoot, logDirs[r], logRoot)}
            /\ UNCHANGED mainPc
    /\ UNCHANGED <<inputs, phaseIdx, log, timeKeys, calls, files, saved, poolFailed>>

\* main, lines 268-269: the next iteration of the in-process loop
SeqLaunch(r) ==
    /\ mainPc = "seq"
    /\ \A q \in 1..(r - 1) : Finished(q)
    /\ LaunchRerunVis(r, 0)
    /\ UNCHANGED <<cur, nextChunk>>

\* main, line 269 falling off the loop: every run has returned
SeqReturn ==
    /\ mainPc = "seq"
    /\ \A q \in Runs : Finished(q)
    /\ mainPc' = "returned"
    /\ UNCHANGED <<inputs, pc, phaseIdx, log, timeKeys, calls, dev, proc, env, saveDir, made, files, saved,
                   cur, nextChunk, poolFailed, invoked>>

\* starmap's chunksize: divmod(len(tasks), 4 * processes), rounded up
ChunkSize(n, p) == IF n % (4 * p) = 0 THEN n \div (4 * p) ELSE (n \div (4 * p)) + 1
NumChunks == IF NumRuns = 0 THEN 0
             ELSE (NumRuns + ChunkSize(NumRuns, Len(gpus)) - 1)
                      \div ChunkSize(NumRuns, Len(gpus))
ChunkOf(r) == (r - 1) \div ChunkSize(NumRuns, Len(gpus))

\* a pool worker is free once the run it took last has ended
WorkerFree(w) == IF cur[w] = 0 THEN TRUE ELSE Ended(cur[w])

\* the chunk worker w holds has a next run, and the last one returned
ChunkContinues(w) ==
    /\ cur[w] # 0
    /\ Finished(cur[w])
    /\ cur[w] < NumRuns
    /\ ChunkOf(cur[w] + 1) = ChunkOf(cur[w])

\* a free worker gets its next run: the next one of the chunk it holds (a chunk
\* ends at its first raise), or the first one of the chunk it takes from the
\* queue; the run is not called yet
PoolTake(w) ==
    /\ mainPc = "pool"
    /\ WorkerFree(w)
    /\ IF ChunkContinues(w)
       THEN /\ cur' = [cur EXCEPT ![w] = @ + 1]
            /\ UNCHANGED nextChunk
       ELSE /\ nextChunk < NumChunks
            /\ cur' = [cur EXCEPT ![w] = nextChunk * ChunkSize(NumRuns, Len(gpus)) + 1]
            /\ nextChunk' = nextChunk + 1
    /\ UNCHANGED <<inputs, mainPc, pc, phaseIdx, log, timeKeys, calls, dev, proc, env,
                   saveDir, made, files, saved, poolFailed, invoked>>

\* the worker calls launch_rerun_vis for the run it holds, whenever it gets to
\* it: other workers may have taken and called later runs in the meantime
PoolLaunch(w) ==
    /\ mainPc = "pool"
    /\ cur[w] # 0
    /\ LaunchRerunVis(cur[w], w)
    /\ UNCHANGED <<cur, nextChunk>>

\* starmap returns, or raises the first exception, once every task has ended;
\* leaving the with block terminates the pool
PoolJoin ==
    /\ mainPc = "pool"
    /\ nextChunk = NumChunks
    /\ \A w \in Workers : WorkerFree(w) /\ ~ChunkContinues(w)
    /\ mainPc' = IF poolFailed THEN "raised" ELSE "returned"
    /\ UNCHANGED <<inputs, pc, phaseIdx, log, timeKeys, calls, dev, proc, env, saveDir, made, files, saved,
                   cur, nextChunk, poolFailed, invoked>>

(***************************************************************************)
(* One run: log_to_rrd and log_to_rerun, a step per function called.       *)
(***************************************************************************)
\* log_to_rrd, lines 200-209: the dataset is built; an empty one ends the run
LoadDataset(r) ==
    /\ pc[r] = "launched"
    /\ pc' = [pc EXCEPT ![r] = IF runs[r].B < 1 THEN "skipped" ELSE "loaded"]
    /\ UNCHANGED <<inputs, mainPc, phaseIdx, log, timeKeys, calls, dev, proc, env,
                   saveDir, made, files, saved, cur, nextChunk, poolFailed, invoked>>

\* run r's recording after a logger has run, and the keys it has set
Append2(r, out) ==
    /\ log' = [log EXCEPT ![r] = @ \o out.events]
    /\ timeKeys' = [timeKeys EXCEPT ![r] = @ \o out.keys]

\* log_to_rerun, lines 40-45: a fresh recording, the timeless view coordinates,
\* then log_input_frames
LogFrames(r) ==
    /\ pc[r] = "loaded"
    /\ log' = [log EXCEPT ![r] =
                  <<Event(WorldPath, "view_coordinates", -1, NoVerts, NoFaces, NoSegs)>>
                  \o LogInputFrames(runs[r]).events]
    /\ timeKeys' = [timeKeys EXCEPT ![r] = LogInputFrames(runs[r]).keys]
    /\ pc' = [pc EXCEPT ![r] = "frames"]
    /\ UNCHANGED <<inputs, mainPc, phaseIdx, calls, dev, proc, env, saveDir, made, files, saved, cur,
                   nextChunk, poolFailed, invoked>>

\* log_to_rerun, line 47
LogSkeleton(r) ==
    /\ pc[r] = "frames"
    /\ Append2(r, LogSkeleton2d(runs[r]))
    /\ pc' = [pc EXCEPT ![r] = "skeleton"]
    /\ UNCHANGED <<inputs, mainPc, phaseIdx, calls, dev, proc, env, saveDir, made, files, saved, cur,
                   nextChunk, poolFailed, invoked>>

\* log_to_rerun, line 51
LogDefiningCamera(r) ==
    /\ pc[r] = "skeleton"
    /\ Append2(r, LogCamera(runs[r]))
    /\ pc' = [pc EXCEPT ![r] = "phases"]
    /\ UNCHANGED <<inputs, mainPc, phaseIdx, calls, dev, proc, env, saveDir, made, files, saved, cur,
                   nextChunk, poolFailed, invoked>>

\* what one iteration of the phase loop logs: nothing for a skipped phase or a
\* failed load, else what log_phase_result logs
PhaseOutcome(ds, phase) ==
    LET rp == ResolvePhase(ds, phase)
    IN  IF rp.status = "found" THEN LogPhaseResult(ds, rp.res)
        ELSE Logged(<<>>, <<>>, rp.status = "raise")

\* log_to_rerun, lines 53-67: one iteration of the loop over phases
PhaseStep(r) ==
    /\ pc[r] = "phases"
    /\ phaseIdx[r] < Len(phases)
    /\ LET phase == phases[phaseIdx[r] + 1]
           rp == ResolvePhase(runs[r], phase)
           out == PhaseOutcome(runs[r], phase)
       IN  /\ Append2(r, out)
           /\ calls' = [calls EXCEPT ![r] =
                           IF rp.status = "found" THEN Append(@, rp.res) ELSE @]
           /\ phaseIdx' = [phaseIdx EXCEPT ![r] = IF out.raised THEN @ ELSE @ + 1]
           /\ pc' = [pc EXCEPT ![r] = IF out.raised THEN "raised" ELSE @]
           /\ mainPc' = MainPcOnRaise(r, out.raised)
           /\ poolFailed' = PoolFailedOnRaise(r, out.raised)
    /\ UNCHANGED <<inputs, dev, proc, env, saveDir, made, files, saved, cur, nextChunk, invoked>>

\* rr.save(path) by run r: the file at path now holds r's recording, whatever
\* it held before
RrSave(r, path) ==
    /\ files' = {f \in files : f.path # path} \cup {[path |-> path, events |-> log[r]]}
    /\ saved' = [saved EXCEPT ![r] = Append(@, path)]

\* rr.save called while the phase loop is still running
SaveBeforePhases(r) ==
    /\ pc[r] = "phases"
    /\ saved[r] = <<>>
    /\ RrSave(r, OsPathJoin(saveDir[r], LogRrd))
    /\ UNCHANGED <<inputs, mainPc, pc, phaseIdx, log, timeKeys, calls, dev, proc, env,
                   saveDir, made, cur, nextChunk, poolFailed, invoked>>

\* log_to_rrd, line 212, after log_to_rerun has returned:
\* rr.save(os.path.join(save_dir, "log.rrd"))
Save(r) ==
    /\ pc[r] = "phases"
    /\ phaseIdx[r] = Len(phases)
    /\ RrSave(r, OsPathJoin(saveDir[r], LogRrd))
    /\ pc' = [pc EXCEPT ![r] = "done"]
    /\ UNCHANGED <<inputs, mainPc, phaseIdx, log, timeKeys, calls, dev, proc, env,
                   saveDir, made, cur, nextChunk, poolFailed, invoked>>

Next ==
    \/ Main
    \/ \E r \in Runs : SeqLaunch(r)
    \/ SeqReturn
    \/ \E w \in Workers : PoolTake(w)
    \/ \E w \in Workers : PoolLaunch(w)
    \/ PoolJoin
    \/ \E r \in Runs : LoadDataset(r)
    \/ \E r \in Runs : LogFrames(r)
    \/ \E r \in Runs : LogSkeleton(r)
    \/ \E r \in Runs : LogDefiningCamera(r)
    \/ \E r \in Runs : PhaseStep(r)
    \/ \E r \in Runs : Save(r)

(***************************************************************************)
(* Inputs.  Every specification starts main on a command line and a        *)
(* directory tree; they differ in which part of the input they vary.       *)
(***************************************************************************)
SeqsUpTo(S, n) == UNION {[1..k -> S] : k \in 0..n}

PhaseNames == {"input", "motion_chunks", "root_fit"}
DirNames == PhaseNames \ {"input"}

Dataset(B, T, vis, joints, dirs) ==
    [B |-> B, T |-> T, vis |-> vis, joints |-> joints, dirs |-> dirs]

\* the (B, T) shapes of at most n (track, frame) cells, each with a track and a frame
Shapes(n) == {sh \in (1..n) \X (1..n) : sh[1] * sh[2] <= n}

VisCodes == {-1, 0, 1}
VisMasks(B, T) == [0..(B - 1) -> [0..(T - 1) -> VisCodes]]
AllVisible(B, T) == [i \in 0..(B - 1) |-> [f \in 0..(T - 1) |-> 1]]

ConfVals == {0, Threshold, Threshold + 1, 100000}
UniformJoints(c) == [j \in RawJoints |-> c]
\* confidence hi at the raw joints of S and lo elsewhere
Profile(lo, hi, S) == [j \in RawJoints |-> IF j \in S THEN hi ELSE lo]
JointSets == {{0}, {2, 5}, {1, 8}, RawJoints}
Profiles == {Profile(lo, hi, S) : lo \in ConfVals, hi \in ConfVals, S \in JointSets}
ConfidentJoints(B, T) ==
    [i \in 0..(B - 1) |-> [f \in 0..(T - 1) |-> UniformJoints(100000)]]
\* profile p at the cells of lit, the uniform confidence dark at the others
JointsOf(B, T, p, dark, lit) ==
    [i \in 0..(B - 1) |-> [f \in 0..(T - 1) |->
        IF <<i, f>> \in lit THEN p ELSE UniformJoints(dark)]]

KeyDigits == {0, 1, 5}
KeyWidths == {1, 2}
AllKeys == UNION {[1..w -> KeyDigits] : w \in KeyWidths}
KeySets == {K \in SUBSET AllKeys : Cardinality(K) <= MaxKeys}

Absent == Dir(FALSE, {}, FALSE)
GoodDir == Dir(TRUE, {<<0, 5>>, <<1, 0>>}, TRUE)
CorruptDir == Dir(TRUE, {<<0, 5>>, <<1, 0>>}, FALSE)
EmptyDir == Dir(TRUE, {}, TRUE)
DirKinds == {Absent, GoodDir, CorruptDir, EmptyDir}
GoodDirs == [d \in DirNames |-> GoodDir]

\* runs that end in each of the ways a run can end
GoodRun == Dataset(2, 1, [i \in 0..1 |-> [f \in 0..0 |-> i - 1]],
                   ConfidentJoints(2, 1), GoodDirs)
EmptyRun == Dataset(0, 1, <<>>, <<>>, GoodDirs)
CorruptRun == Dataset(2, 1, AllVisible(2, 1), ConfidentJoints(2, 1),
                      [d \in DirNames |-> CorruptDir])
\* n runs of one kind, and n runs without a track except the j-th: a finished
\* run first or last, or a run that raises anywhere
Uniform(kind, n) == [k \in 1..n |-> kind]
OneOf(kind, j, n) == [k \in 1..n |-> IF k = j THEN kind ELSE EmptyRun]
RunLists(n) ==
    {Uniform(EmptyRun, n)}
    \cup {OneOf(GoodRun, j, n) : j \in {1, n} \cap (1..n)}
    \cup {OneOf(CorruptRun, j, n) : j \in 1..n}

\* the command line's paths: --log_root r, and --save_root absent or s
LogRoot == <<"r">>
NoSaveRoot == SaveRootArg(FALSE, <<>>)
GivenSaveRoot == SaveRootArg(TRUE, <<"s">>)
SaveRoots == {NoSaveRoot, GivenSaveRoot}

\* what os.walk yields for the directory rel below top (top itself for "")
WalkDir(top, rel) == IF Len(rel) = 0 THEN top ELSE OsPathJoin(top, rel)

\* the run directories a/b/1, a/b/2, ... below the log root
RunNames == <<"1", "2", "3", "4", "5", "6", "7", "8", "9", "A", "B", "C">>
DefaultDirs(n) == [k \in 1..n |-> WalkDir(LogRoot, <<"a", "/", "b", "/", RunNames[k]>>)]

\* the run directories of a tree in one top-down walk: the log root itself,
\* a/b/0, a/b/1, a/r/c and a-b; and the walk with every listing reversed
WalkOrder ==
    << <<>>,
       <<"a", "/", "b", "/", "0">>,
       <<"a", "/", "b", "/", "1">>,
       <<"a", "/", "r", "/", "c">>,
       <<"a", "-", "b">> >>
WalkOrderReversed ==
    <<WalkOrder[1]>> \o [k \in 1..(Len(WalkOrder) - 1) |-> WalkOrder[Len(WalkOrder) + 1 - k]]
\* the log_dirs of the trees with at most n run directories
Trees(n) ==
    {[k \in DOMAIN SelectSeq(w, LAMBDA d : d \in T) |->
          WalkDir(LogRoot, SelectSeq(w, LAMBDA d : d \in T)[k])] :
       w \in {WalkOrder, WalkOrderReversed},
       T \in {U \in SUBSET Range(WalkOrder) : Cardinality(U) <= n}}

\* device lists of each length: 0, 1, 2, ... and the same reversed
GpuLists == UNION {{[k \in 1..n |-> k - 1], [k \in 1..n |-> n - k]} : n \in 0..MaxGpus}

\* main started without --save_root on the run directories a/b/1, a/b/2, ...
Start(g, ph, rs) == StartIn(g, ph, rs, LogRoot, NoSaveRoot, DefaultDirs(Len(rs)))

\* one run in process and two runs on a pool of two workers
BaseInit ==
    \/ Start(<<0>>, <<"motion_chunks">>, <<GoodRun>>)
    \/ Start(<<0, 1>>, <<"motion_chunks">>, <<GoodRun, EmptyRun>>)

\* the batch launcher over every device list and up to MaxRuns runs (runs times
\* devices up to MaxLoad): more runs than devices, and with two devices enough
\* of them for chunks of two
Init ==
    \/ BaseInit
    \/ \E g \in GpuLists, n \in 0..MaxRuns :
        /\ n * Len(g) <= MaxLoad
        /\ \E rs \in RunLists(n) :
               Start(g, <<"motion_chunks">>, rs)

\* a run of two tracks and two frames: its recording differs from GoodRun's
LongRun == Dataset(2, 2, AllVisible(2, 2), ConfidentJoints(2, 2), GoodDirs)
SaveRunKinds == {GoodRun, LongRun, EmptyRun, CorruptRun}

\* the batch launcher over the trees of run directories, with and without
\* --save_root, in process and on a pool of two workers
InitSave ==
    \/ BaseInit
    \/ \E g \in {<<0>>, <<0, 1>>}, sr \in SaveRoots, ld \in Trees(MaxSaveRuns) :
        \E rs \in [DOMAIN ld -> SaveRunKinds] :
            StartIn(g, <<"motion_chunks">>, rs, LogRoot, sr, ld)

\* one run over every visibility mask
InitMesh ==
    \/ BaseInit
    \/ \E sh \in Shapes(MaxCells),
          ph \in {<<"motion_chunks">>, <<"input", "motion_chunks">>} :
        \E vis \in VisMasks(sh[1], sh[2]) :
            Start(<<0>>, ph,
                  <<Dataset(sh[1], sh[2], vis, ConfidentJoints(sh[1], sh[2]), GoodDirs)>>)

\* one run over the keypoint confidences
InitSkel ==
    \/ BaseInit
    \/ \E sh \in Shapes(SkelMaxCells), p \in Profiles, dark \in {0, Threshold} :
        \E lit \in SUBSET ((0..(sh[1] - 1)) \X (0..(sh[2] - 1))) :
            Start(<<0>>, <<"motion_chunks">>,
                  <<Dataset(sh[1], sh[2], AllVisible(sh[1], sh[2]),
                            JointsOf(sh[1], sh[2], p, dark, lit), GoodDirs)>>)

\* one run over the iteration keys of the phase directory
InitKeys ==
    \/ BaseInit
    \/ \E K \in KeySets, ok \in BOOLEAN :
        Start(<<0>>, <<"motion_chunks">>,
              <<Dataset(2, 1, AllVisible(2, 1), ConfidentJoints(2, 1),
                        [d \in DirNames |-> Dir(TRUE, K, ok)])>>)

\* one run over the requested phases and the phase directories
InitPhases ==
    \/ BaseInit
    \/ \E ph \in SeqsUpTo(PhaseNames, MaxPhases), dirs \in [DirNames -> DirKinds],
          B \in 1..2 :
        Start(<<0>>, ph,
              <<Dataset(B, 1, AllVisible(B, 1), ConfidentJoints(B, 1), dirs)>>)

Spec == Init /\ [][Next]_vars
SpecMesh == InitMesh /\ [][Next]_vars
SpecSkel == InitSkel /\ [][Next]_vars
SpecKeys == InitKeys /\ [][Next]_vars
SpecPhases == InitPhases /\ [][Next]_vars
SpecSave == InitSave /\ [][Next]_vars

(***************************************************************************)
(* Properties.  They read the recording (log, timeKeys, calls, files) and  *)
(* the inputs, not the operators that produced them.                       *)
(***************************************************************************)
Tracks(r) == 0..(runs[r].B - 1)
Frames(r) == 0..(runs[r].T - 1)
\* the positions in run r's log of the events at a path under a timeline key
EventsAt(r, path, time) ==
    {k \in DOMAIN log[r] : log[r][k].path = path /\ log[r][k].time = time}
\* the positions in run r's calls of the log_phase_result calls for a phase
CallsOf(r, phase) == {k \in DOMAIN calls[r] : calls[r][k].phase = phase}
CalledPhases(r) == {calls[r][k].phase : k \in DOMAIN calls[r]}
IsMeshPath(e) == e.path.base = "world/phase_/#"
IsSkeletonPath(e) == e.path.base = "world/camera/image/skeleton/#"
IsCameraPose(e) == e.path = CameraPath /\ e.kind = "rigid3"
SkeletonLogged(r) == pc[r] \in {"skeleton", "phases", "done", "raised"}

\* C1: every event logged at world/phase_<phase>/#<i> under a timeline key f with
\* vis_mask[i][f] < 0 is a clear event, never a mesh; and once the run is done
\* there is exactly one such event per call of log_phase_result for the phase.
C1_OutOfFrameIsCleared ==
    \A r \in Runs :
        /\ \A k \in DOMAIN log[r] :
               (IsMeshPath(log[r][k])
                    /\ runs[r].vis[log[r][k].path.idx][log[r][k].time] < 0)
               => log[r][k].kind = "cleared"
        /\ pc[r] = "done" =>
               \A ph \in CalledPhases(r), i \in Tracks(r), f \in Frames(r) :
                   runs[r].vis[i][f] < 0 =>
                       Cardinality(EventsAt(r, PhasePath(ph, i), f))
                           = Cardinality(CallsOf(r, ph))

\* the run of two tracks and three frames with the visibility mask
\* [[1, -1, 0], [-1, 1, 1]], finished: track 0 has a mesh at frames 0 and 2 and
\* a clear at frame 1, track 1 a clear at frame 0 and a mesh at frames 1 and 2
C1_Witness ==
    \E r \in Runs :
        /\ pc[r] = "done"
        /\ runs[r].B = 2 /\ runs[r].T = 3
        /\ runs[r].vis = [i \in 0..1 |-> IF i = 0 THEN [f \in 0..2 |-> IF f = 1 THEN -1 ELSE 1 - (f \div 2)]
                                          ELSE [f \in 0..2 |-> IF f = 0 THEN -1 ELSE 1]]
        /\ \A i \in 0..1, f \in 0..2 :
               \E k \in EventsAt(r, PhasePath("motion_chunks", i), f) :
                   log[r][k].kind = IF runs[r].vis[i][f] < 0 THEN "cleared" ELSE "mesh"

\* C2: once log_phase_result has been called for a phase and has ended, every
\* (track i, frame f) with vis_mask[i][f] >= 0 (code 0 as well as code 1) has
\* exactly one mesh event at world/phase_<phase>/#<i> under timeline key f, made
\* of that track's vertex slice and the shared face array, for any dataset with
\* at least one track.
C2_VisibleIsMeshed ==
    \A r \in Runs :
        (pc[r] \in {"done", "raised"} /\ runs[r].B >= 1) =>
            \A ph \in CalledPhases(r), i \in Tracks(r), f \in Frames(r) :
                runs[r].vis[i][f] >= 0 =>
                    Cardinality({k \in EventsAt(r, PhasePath(ph, i), f) :
                                    /\ log[r][k].kind = "mesh"
                                    /\ log[r][k].verts.track = i
                                    /\ log[r][k].verts.frame = f
                                    /\ log[r][k].faces = "smpl_faces"})
                        = Cardinality(CallsOf(r, ph))

\* the confidence of skeleton edge e of track i at frame f: the smaller of the
\* confidences of the two raw joints its endpoints are remapped from
EdgeConf(r, i, f, e) ==
    LET a == runs[r].joints[i][f][Idcs[SkeletonIds[e][1] + 1]]
        b == runs[r].joints[i][f][Idcs[SkeletonIds[e][2] + 1]]
    IN  IF a < b THEN a ELSE b
Edges == 1..19
\* the edges of the line-segment events logged for track i under key f
EmittedEdges(r, i, f) ==
    UNION {Range(log[r][k].segs) : k \in EventsAt(r, SkeletonPath(i), f)}

\* C3: once log_skeleton_2d has run, a skeleton edge of (track i, frame f) is
\* among the logged segments if and only if the minimum of its two endpoint
\* confidences is strictly greater than 0.3 (so exactly 0.3 is excluded and
\* 0.30001 is included).
C3_SegmentIffAboveThreshold ==
    \A r \in Runs :
        SkeletonLogged(r) =>
            \A i \in Tracks(r), f \in Frames(r), e \in Edges :
                (e \in EmittedEdges(r, i, f)) <=> (EdgeConf(r, i, f, e) > 30000)

\* one frame holds an edge at exactly 0.3, left out, and one at 0.30001, logged
C3_Witness ==
    \E r \in Runs :
        /\ SkeletonLogged(r)
        /\ \E i \in Tracks(r), f \in Frames(r), e1 \in Edges, e2 \in Edges :
               /\ EdgeConf(r, i, f, e1) = 30000
               /\ e1 \notin EmittedEdges(r, i, f)
               /\ EdgeConf(r, i, f, e2) = 30001
               /\ e2 \in EmittedEdges(r, i, f)

\* C4: once log_skeleton_2d has run, every (track i, frame f) has exactly one
\* event at world/camera/image/skeleton/#<i> under timeline key f: a line-segment
\* event when some edge passes the filter, else a clear event (and no segment
\* event); a track with no passing edge in any frame has a clear in every frame.
C4_OneSkeletonEventPerFrame ==
    \A r \in Runs :
        SkeletonLogged(r) =>
            \A i \in Tracks(r), f \in Frames(r) :
                /\ Cardinality(EventsAt(r, SkeletonPath(i), f)) = 1
                /\ \A k \in EventsAt(r, SkeletonPath(i), f) :
                       IF \E e \in Edges : EdgeConf(r, i, f, e) > 30000
                       THEN log[r][k].kind = "line_segments"
                       ELSE log[r][k].kind = "cleared"

\* a track of two frames or more with no edge above the threshold in any frame,
\* cleared in each of them
C4_Witness ==
    \E r \in Runs :
        /\ SkeletonLogged(r)
        /\ runs[r].T >= 2
        /\ \E i \in Tracks(r) :
               \A f \in Frames(r) :
                   /\ \A e \in Edges : EdgeConf(r, i, f, e) <= 30000
                   /\ \E k \in EventsAt(r, SkeletonPath(i), f) :
                          log[r][k].kind = "cleared"

RECURSIVE KeyValue(_)
\* the number an iteration key denotes
KeyValue(k) == IF k = <<>> THEN 0 ELSE 10 * KeyValue(SubSeq(k, 1, Len(k) - 1)) + k[Len(k)]
FixedWidth(K) == \A a \in K, b \in K : Len(a) = Len(b)
IsLatest(it, K) == it \in K /\ \A o \in K : KeyValue(o) <= KeyValue(it)

\* C5: for a phase other than "input" whose directory exists, the result passed
\* to log_phase_result, and every mesh logged from it, is that of the numerically
\* greatest iteration key of the directory, whenever the keys have one width; and
\* a finished run has loaded one result for each such requested phase.
C5_LatestSnapshotLoaded ==
    \A r \in Runs :
        /\ \A k \in DOMAIN calls[r] :
               (calls[r][k].phase # "input"
                    /\ FixedWidth(runs[r].dirs[calls[r][k].phase].keys))
               => IsLatest(calls[r][k].it, runs[r].dirs[calls[r][k].phase].keys)
        /\ \A k \in DOMAIN log[r] :
               (log[r][k].kind = "mesh" /\ log[r][k].path.phase # "input"
                    /\ FixedWidth(runs[r].dirs[log[r][k].path.phase].keys))
               => IsLatest(log[r][k].verts.it, runs[r].dirs[log[r][k].path.phase].keys)
        /\ pc[r] = "done" =>
               \A j \in DOMAIN phases :
                   (phases[j] # "input" /\ runs[r].dirs[phases[j]].exists)
                   => CallsOf(r, phases[j]) # {}

\* the keys "10", "50", "05": the run is done and its meshes come from "50"
C5_Witness ==
    \E r \in Runs :
        /\ pc[r] = "done"
        /\ runs[r].dirs["motion_chunks"].keys = {<<1, 0>>, <<5, 0>>, <<0, 5>>}
        /\ \E k \in DOMAIN log[r] :
               /\ log[r][k].kind = "mesh"
               /\ log[r][k].path.phase = "motion_chunks"
               /\ log[r][k].verts.it = <<5, 0>>

\* whether log_dir/<phase> can be resolved: the synthetic phase, or a directory
Found(r, ph) == ph = "input" \/ runs[r].dirs[ph].exists
FoundAmong(r, n) == SelectSeq(SubSeq(phases, 1, n), LAMBDA ph : Found(r, ph))
CallPhases(r) == [k \in DOMAIN calls[r] |-> calls[r][k].phase]
IsPrefix(a, b) == Len(a) <= Len(b) /\ a = SubSeq(b, 1, Len(a))
InPhaseLoop(r) == pc[r] \in {"phases", "done"}

\* C6: a requested phase whose directory does not exist is skipped: no exception
\* leaves the loop at it and no event is logged under its name; the phases
\* passed to log_phase_result are the found ones among those the loop has
\* gone through, in the order requested, so the phases after a missing one are
\* still resolved and logged.
C6_MissingPhaseSkipped ==
    \A r \in Runs :
        /\ \A k \in DOMAIN log[r] :
               IsMeshPath(log[r][k]) => Found(r, log[r][k].path.phase)
        /\ InPhaseLoop(r) => CallPhases(r) = FoundAmong(r, phaseIdx[r])
        /\ IsPrefix(CallPhases(r), FoundAmong(r, Len(phases)))
        /\ (pc[r] = "raised" /\ dev[r] # -1) => Found(r, phases[phaseIdx[r] + 1])
        /\ pc[r] = "done" =>
               \A j \in DOMAIN phases, i \in Tracks(r), f \in Frames(r) :
                   Found(r, phases[j]) => EventsAt(r, PhasePath(phases[j], i), f) # {}

\* a finished run whose first requested phase is missing and whose second one
\* was logged
C6_Witness ==
    \E r \in Runs :
        /\ pc[r] = "done"
        /\ Len(phases) = 2
        /\ ~Found(r, phases[1])
        /\ Found(r, phases[2])
        /\ CallPhases(r) = <<phases[2]>>
        /\ EventsAt(r, PhasePath(phases[2], 0), 0) # {}
        /\ \A k \in DOMAIN log[r] : log[r][k].path.phase # phases[1]

\* C7 as stated: over the whole run the timeline keys never decrease, and every
\* mesh or 2D-skeleton event under key f comes after a camera pose under key f.
C7_KeysIncreaseOverRun ==
    \A r \in Runs :
        /\ \A k \in 1..(Len(timeKeys[r]) - 1) : timeKeys[r][k] <= timeKeys[r][k + 1]
        /\ \A k \in DOMAIN log[r] :
               (IsMeshPath(log[r][k]) \/ IsSkeletonPath(log[r][k])) =>
                   \E j \in 1..(k - 1) :
                       IsCameraPose(log[r][j]) /\ log[r][j].time = log[r][k].time

\* C7, amended: the timeline keys increase by one within each logging pass and
\* every pass starts again at key 0; each mesh event of a phase under key f
\* follows that phase's camera pose under key f, with only mesh events of the
\* same phase and key in between; and the 2D-skeleton events all come before
\* the first camera pose.
C7_KeysIncreaseWithinPass ==
    \A r \in Runs :
        /\ \A k \in DOMAIN timeKeys[r] :
               IF k = 1 THEN timeKeys[r][k] = 0
               ELSE timeKeys[r][k] = 0 \/ timeKeys[r][k] = timeKeys[r][k - 1] + 1
        /\ \A k \in DOMAIN log[r] :
               IsMeshPath(log[r][k]) =>
                   \E j \in 1..(k - 1) :
                       /\ IsCameraPose(log[r][j])
                       /\ log[r][j].time = log[r][k].time
                       /\ \A m \in (j + 1)..(k - 1) :
                              /\ IsMeshPath(log[r][m])
                              /\ log[r][m].path.phase = log[r][k].path.phase
                              /\ log[r][m].time = log[r][k].time
        /\ \A k \in DOMAIN log[r], j \in DOMAIN log[r] :
               (IsSkeletonPath(log[r][k]) /\ IsCameraPose(log[r][j])) => k < j

\* a finished run of two tracks and two frames: its keys fall back to 0 between
\* passes and it has logged meshes
C7_Witness ==
    \E r \in Runs :
        /\ pc[r] = "done"
        /\ runs[r].B >= 2
        /\ runs[r].T >= 2
        /\ \E k \in 1..(Len(timeKeys[r]) - 1) : timeKeys[r][k + 1] < timeKeys[r][k]
        /\ \E k \in DOMAIN log[r] : log[r][k].kind = "mesh" /\ log[r][k].time = 1

Active(r) == pc[r] \in {"launched", "loaded", "frames", "skeleton", "phases"}

\* C8: launch_rerun_vis is called at most once per run, and exactly once for
\* every run when main returns; run i uses gpus[i mod len(gpus)], and while it
\* works the device environment of its process names that device; with more
\* than one device the runs execute in pool workers, one at a time in each
\* worker and so at most len(gpus) at a time, however many runs there are; with
\* one device they execute in the main process, each after all the runs
\* discovered before it have returned.
C8_OncePerRunRoundRobin ==
    /\ \A r \in Runs : invoked[r] <= 1
    /\ mainPc = "returned" => \A r \in Runs : invoked[r] = 1 /\ Finished(r)
    /\ \A r \in Runs : dev[r] # -1 => dev[r] = gpus[((r - 1) % Len(gpus)) + 1]
    /\ \A r \in Runs : Active(r) => dev[r] # -1 /\ env[proc[r]].EGL_DEVICE_ID = dev[r]
    /\ Len(gpus) > 1 =>
           /\ Cardinality({r \in Runs : Active(r)}) <= Len(gpus)
           /\ \A r \in Runs, q \in Runs :
                  (r # q /\ Active(r) /\ Active(q)) => proc[r] # proc[q]
           /\ \A r \in Runs : invoked[r] = 1 => proc[r] \in 1..Len(gpus)
    /\ Len(gpus) = 1 =>
           \A r \in Runs : invoked[r] = 1 =>
               proc[r] = 0 /\ \A q \in 1..(r - 1) : Finished(q)

\* nine runs on two devices: both workers are at work, so as many runs execute
\* as there are devices, while a run nobody has taken waits in the queue; one of
\* the two is run 4 or a later even run, on the device run 2 used (the round
\* robin has wrapped), called by its worker right after the run before it (the
\* second run of a chunk of two)
C8_Witness ==
    /\ Len(gpus) = 2
    /\ NumRuns = 9
    /\ Cardinality({r \in Runs : Active(r)}) = Len(gpus)
    /\ \E p \in Runs : pc[p] = "pending" /\ \A w \in Workers : cur[w] # p
    /\ \E q \in Runs :
           /\ q > 2 /\ q % 2 = 0
           /\ Active(q)
           /\ dev[q] = dev[2]
           /\ Finished(q - 1)
           /\ proc[q] = proc[q - 1]

\* C9: when main has ended, every discovered run has been started and has run
\* to its own end, whatever exception another run raised.  (Stated for a device
\* list that is not empty and for datasets that do not have exactly one track,
\* so that the only fatal error left is a snapshot that cannot be loaded.)
C9_FailureIsolated ==
    (/\ Len(gpus) >= 1
     /\ \A r \in Runs : runs[r].B # 1
     /\ mainPc \in {"returned", "raised"}) =>
        \A r \in Runs : invoked[r] = 1 /\ Ended(r)

\* the runs that have passed path to rr.save
SaversOf(path) == {r \in Runs : path \in Range(saved[r])}
\* the text of logDir followed by "/log.rrd"
LogRrdIn(dir) == dir \o <<"/", "l", "o", "g", ".", "r", "r", "d">>

\* C10: rr.save is called only by a run that is done, once, after its phase loop
\* has gone through every requested phase and called log_phase_result for each
\* found one, and every file written holds the whole recording of a done run
\* that saved to it (of the one run that did, when there is only one; without
\* --save_root that is log_dir/log.rrd and no two runs share it).  A run with
\* no track logs nothing and saves nothing; a run that raised has saved nothing;
\* a run that is done has saved a file that exists.
C10_PersistOnlyAfterSuccess ==
    /\ \A r \in Runs :
        /\ saved[r] # <<>> =>
               /\ pc[r] = "done"
               /\ runs[r].B >= 1
               /\ phaseIdx[r] = Len(phases)
               /\ CallPhases(r) = FoundAmong(r, Len(phases))
               /\ Cardinality({k \in DOMAIN log[r] : log[r][k].kind = "image"}) = runs[r].T
        /\ pc[r] = "done" =>
               /\ Len(saved[r]) = 1
               /\ \E f \in files : f.path = saved[r][1]
               /\ ~saveRoot.given => saved[r][1] = LogRrdIn(logDirs[r])
               /\ SaversOf(saved[r][1]) = {r} =>
                      \A f \in files : f.path = saved[r][1] => f.events = log[r]
        /\ pc[r] = "raised" => saved[r] = <<>>
        /\ runs[r].B < 1 =>
               /\ log[r] = <<>>
               /\ timeKeys[r] = <<>>
               /\ saved[r] = <<>>
               /\ pc[r] \notin {"loaded", "frames", "skeleton", "phases", "done"}
    /\ \A f \in files :
           /\ \E r \in SaversOf(f.path) : pc[r] = "done" /\ f.events = log[r]
           /\ \A g \in files : g.path = f.path => g = f
    /\ ~saveRoot.given => \A r \in Runs, q \in Runs : r # q => saved[r] # saved[q] \/ saved[r] = <<>>

\* with --save_root, two runs below a/b share one save_dir: the one that raised
\* after logging has saved nothing, and the log.rrd in that directory is the
\* whole recording of the other, which is done
C10_Witness ==
    \E r \in Runs, q \in Runs :
        /\ saveRoot.given
        /\ pc[r] = "raised" /\ log[r] # <<>> /\ saved[r] = <<>>
        /\ pc[q] = "done" /\ saveDir[q] = saveDir[r]
        /\ saveDir[q] = <<"s", "/", "a", "-", "b">>
        /\ files = {[path |-> <<"s", "/", "a", "-", "b", "/", "l", "o", "g", ".", "r", "r", "d">>,
                     events |-> log[q]]}

====
